---- MODULE Spec2Model ----
(***************************************************************************)
(* Slot availability and booking allocation of JakoCrudApp:                *)
(* AppointmentsService (src/app/services/appointments.service.ts) over a   *)
(* Firestore store shared by several service instances.                    *)
(*                                                                         *)
(* Every async method is cut at its awaits: the code between two awaits    *)
(* runs atomically on the instance's single thread, the store acts at the  *)
(* moment it serves a read or a commit.  runTransaction is Firestore's     *)
(* optimistic transaction: the update function reads documents, buffers    *)
(* its writes, and the commit succeeds only when no document it read has   *)
(* been written since; otherwise the update function is run again, up to   *)
(* MaxAttempts times.  An error thrown by the update function itself is    *)
(* not retried.                                                            *)
(***************************************************************************)
EXTENDS Integers, Sequences, FiniteSets, TLC

\* ---------------------------------------------------------------- bounds
MaxAppts == 3        \* appointments the ledger may hold
MaxTicks == 2        \* clock ticks of TickMs

\* ------------------------------------------------------------- constants
CACHE_DURATION == 5 * 60 * 1000
TickMs == CACHE_DURATION \div 2
MaxAttempts == 5

Clients == {"c1", "c2", "c3"}
Users == {"userA", "userB"}
NoUser == "null"
DateIds == {"2025-10-01", "2025-10-02"}
TimeIds == {"8-00_AM", "8-30_AM"}

ErrNotAuthenticated == "User not authenticated"
ErrDateNotFound == "Date not found"
ErrSlotUnavailable == "Time slot is no longer available"
ErrTimeNotFound == "Time not found"
ErrAppointmentNotFound == "Appointment not found"
ErrUnauthorized == "Unauthorized"
ErrAborted == "aborted"
ErrNoDocument == "No document to update"
ErrUnavailable == "Failed to get document because the client is offline."

VARIABLES
    dates,          \* collection 'dates': dateId -> document
    times,          \* collection 'times': the timeIds that have a document
    appointments,   \* collection 'appointments', in order of creation
    currentUser,    \* per instance: uid returned by waitForAuthInit
    datesCache,     \* per instance: dateId -> cache entry
    tx,             \* per instance: the bookAppointment/cancelAppointment call in flight
    get,            \* per instance: the getDateAvailability call in flight
    now,            \* Date.now() / server time, in ms
    last,           \* history: the call that returned most recently, and its result
    seed,           \* history: the 'dates' collection as the seed script left it
    lastWrite,      \* history: per date, the time of the latest commit that wrote it
    auth,           \* per instance: the AuthService and the waitForAuthInit call in flight
    list,           \* per instance: the getUserAppointments call in flight
    sel             \* the TimeSelector component (of instance c1) and its pending loads

vars == <<dates, times, appointments, currentUser, datesCache, tx, get, now, last, seed,
          lastWrite, auth, list, sel>>
aux == <<auth, list, sel>>
store == <<dates, times, appointments>>

\* ------------------------------------------------------------- documents
Range(s) == {s[i] : i \in DOMAIN s}

NoDoc == [exists |-> FALSE, availableTimeIds |-> <<>>]
DateDoc(avail) == [exists |-> TRUE, availableTimeIds |-> avail]

NoDupSeqs(S) ==
    {s \in UNION {[1..n -> S] : n \in 0..Cardinality(S)} :
        \A i, j \in DOMAIN s : i # j => s[i] # s[j]}

NoTimestamp == -1

NoEntry == [present |-> FALSE, data |-> <<>>, timestamp |-> 0, readAt |-> 0]

IdleTx == [pc |-> "idle", dateId |-> "", timeId |-> "", appointmentId |-> 0,
           attempts |-> 0, stale |-> FALSE]
IdleGet == [pc |-> "idle", dateId |-> "", now |-> 0, data |-> NoDoc, readAt |-> 0]

\* mutant: the booking keeps the slot on offer
ArrayRemoveNoop(s, x) == s

\* mutant: removing one element empties the array
ArrayRemoveAll(s, x) == <<>>

\* Firestore arrayRemove: drops every element equal to x
ArrayRemove(s, x) == SelectSeq(s, LAMBDA e : e # x)

\* mutant: the cancellation gives nothing back
ArrayUnionNoop(s, x) == s

\* mutant: plain append
ArrayUnionAppend(s, x) == Append(s, x)

\* Firestore arrayUnion: appends x unless it is already present
ArrayUnion(s, x) == IF x \in Range(s) THEN s ELSE Append(s, x)

\* ---------------------------------------------------------------- history
Outcome(c, op, d, t, a, ok, err) ==
    [client |-> c, op |-> op, dateId |-> d, timeId |-> t, appointmentId |-> a,
     success |-> ok, error |-> err, cacheHit |-> FALSE, data |-> <<>>, age |-> 0]

\* age: for a cache hit, the age of the entry served (the left side of the test of line 89)
GetOutcome(c, d, found, hit, data, age) ==
    [client |-> c, op |-> "get", dateId |-> d, timeId |-> "", appointmentId |-> 0,
     success |-> found, error |-> "", cacheHit |-> hit, data |-> data, age |-> age]

NoOutcome == Outcome("", "none", "", "", 0, FALSE, "")

ListOutcome(c, result) == [Outcome(c, "list", "", "", 0, TRUE, "") EXCEPT !.data = result]

Record(o) == last' = o

\* ---------------------------------------------------- auth, list, selector
\* AuthService after onAuthStateChanged has delivered user u and authInitialized$
\* is true (auth.service.ts lines 64-98); no waitForAuthInit in progress
AuthReady(u) ==
    [initialized |-> TRUE, user |-> u, session |-> u, listener |-> "done",
     wait |-> "none", timer |-> FALSE, subscribed |-> FALSE, resolved |-> FALSE,
     result |-> NoUser, resolves |-> 0]

IdleList == [pc |-> "idle", uid |-> NoUser]

NoDate == "null"
MaxLoads == 2
NoLoad == [IdleGet EXCEPT !.pc = "none", !.dateId = NoDate]

\* TimeSelector as constructed (time-selector.ts lines 14-24)
NoSelector ==
    [selectedDateId |-> NoDate, availableTimes |-> <<>>, allTimeSlots |-> {},
     disabledSlots |-> {}, loading |-> FALSE, loads |-> [i \in 1..MaxLoads |-> NoLoad]]

InitAux ==
    /\ auth = [c \in Clients |-> AuthReady(currentUser[c])]
    /\ list = [c \in Clients |-> IdleList]
    /\ sel = NoSelector

\* ------------------------------------------------------------------- init
SeedDocs == {NoDoc} \cup {DateDoc(s) : s \in NoDupSeqs(TimeIds)}

InitCommon ==
    /\ times = TimeIds
    /\ appointments = <<>>
    /\ datesCache = [c \in Clients |-> [d \in DateIds |-> NoEntry]]
    /\ tx = [c \in Clients |-> IdleTx]
    /\ get = [c \in Clients |-> IdleGet]
    /\ now = 0
    /\ last = NoOutcome
    /\ seed = dates
    /\ lastWrite = [d \in DateIds |-> 0 - CACHE_DURATION]
    /\ InitAux

Init ==
    /\ dates \in [DateIds -> SeedDocs]
    /\ currentUser \in [Clients -> Users \cup {NoUser}]
    /\ InitCommon

\* ------------------------------------------------------------------ clock
Tick ==
    /\ now < MaxTicks * TickMs
    /\ now' = now + TickMs
    /\ UNCHANGED <<dates, times, appointments, currentUser, datesCache, tx, get, last, seed, lastWrite>>
    /\ UNCHANGED aux

\* ------------------------------------------------- getDateAvailability
\* mutant: an entry of exactly CACHE_DURATION is still served
CacheFreshInclusive(cached, n) == cached.present /\ (n - cached.timestamp) <= CACHE_DURATION

\* the test of line 89
CacheFresh(cached, n) == cached.present /\ (n - cached.timestamp) < CACHE_DURATION

\* mutant: the entry is stamped when the read has returned, not when the call began
CacheEntryStampedLate(g) ==
    [present |-> TRUE, data |-> g.data.availableTimeIds, timestamp |-> now,
     readAt |-> g.readAt]

\* the entry written at line 106: the data read, stamped with the `now` taken at line 87
\* (readAt is history: the time the store served the read)
CacheEntry(g) ==
    [present |-> TRUE, data |-> g.data.availableTimeIds, timestamp |-> g.now,
     readAt |-> g.readAt]

\* lines 86-96: cache lookup; a hit returns at once, a miss sends getDoc
GetStart(c, d) ==
    /\ get[c].pc = "idle"
    /\ IF CacheFresh(datesCache[c][d], now)
       THEN /\ Record(GetOutcome(c, d, TRUE, TRUE, datesCache[c][d].data,
                                 now - datesCache[c][d].timestamp))
            /\ UNCHANGED get
       ELSE /\ get' = [get EXCEPT ![c] = [IdleGet EXCEPT !.pc = "get_fetch",
                                                        !.dateId = d, !.now = now]]
            /\ UNCHANGED last
    /\ UNCHANGED <<dates, times, appointments, currentUser, datesCache, tx, now, seed, lastWrite>>
    /\ UNCHANGED aux

\* line 97: the store serves getDoc
GetFetch(c) ==
    /\ get[c].pc = "get_fetch"
    /\ get' = [get EXCEPT ![c].pc = "get_resume", ![c].data = dates[get[c].dateId],
                          ![c].readAt = now]
    /\ UNCHANGED <<dates, times, appointments, currentUser, datesCache, tx, now, last, seed, lastWrite>>
    /\ UNCHANGED aux

\* mutant: when the read fails, an entry that is still in the cache is served
GetFetchFailsServeStale(c) ==
    /\ get[c].pc = "get_fetch"
    /\ IF datesCache[c][get[c].dateId].present
       THEN Record(GetOutcome(c, get[c].dateId, TRUE, TRUE,
                              datesCache[c][get[c].dateId].data,
                              now - datesCache[c][get[c].dateId].timestamp))
       ELSE Record([GetOutcome(c, get[c].dateId, FALSE, FALSE, <<>>, 0)
                       EXCEPT !.error = ErrUnavailable])
    /\ get' = [get EXCEPT ![c] = IdleGet]
    /\ UNCHANGED <<dates, times, appointments, currentUser, datesCache, tx, now, seed,
                   lastWrite>>
    /\ UNCHANGED aux

\* line 95: getDoc rejects; nothing catches it, the call rejects with the error
GetFetchFails(c) ==
    /\ get[c].pc = "get_fetch"
    /\ Record([GetOutcome(c, get[c].dateId, FALSE, FALSE, <<>>, 0)
                  EXCEPT !.error = ErrUnavailable])
    /\ get' = [get EXCEPT ![c] = IdleGet]
    /\ UNCHANGED <<dates, times, appointments, currentUser, datesCache, tx, now, seed,
                   lastWrite>>
    /\ UNCHANGED aux

\* lines 99-108: the continuation after the await
GetResume(c) ==
    /\ get[c].pc = "get_resume"
    /\ IF ~get[c].data.exists
       THEN /\ Record(GetOutcome(c, get[c].dateId, FALSE, FALSE, <<>>, 0))
            /\ UNCHANGED datesCache
       ELSE /\ datesCache' = [datesCache EXCEPT ![c][get[c].dateId] = CacheEntry(get[c])]
            /\ Record(GetOutcome(c, get[c].dateId, TRUE, FALSE,
                                 get[c].data.availableTimeIds, 0))
    /\ get' = [get EXCEPT ![c] = IdleGet]
    /\ UNCHANGED <<dates, times, appointments, currentUser, tx, now, seed, lastWrite>>
    /\ UNCHANGED aux

\* the argument of clearDateCache(dateId?: string) when the call passes none
Undefined == "undefined"

\* JavaScript truthiness of a string-or-undefined value, as `if (dateId)` tests it
Truthy(x) == x \notin {"", Undefined}

\* mutant: nothing is removed
ClearDateCacheNoop(cache, d) == cache

\* lines 114-122
ClearDateCache(cache, d) ==
    IF Truthy(d) THEN [cache EXCEPT ![d] = NoEntry] ELSE [x \in DOMAIN cache |-> NoEntry]

\* a component calls clearDateCache(dateId) or clearDateCache() on its instance
ClearCall(c, d) ==
    /\ datesCache' = [datesCache EXCEPT ![c] = ClearDateCache(@, d)]
    /\ Record(Outcome(c, "clear", d, "", 0, TRUE, ""))
    /\ UNCHANGED <<dates, times, appointments, currentUser, tx, get, now, seed, lastWrite>>
    /\ UNCHANGED aux

\* ------------------------------------------------------ runTransaction
\* a commit that wrote date d and appointment a (0: none) invalidates the other
\* transactions that have read one of them
Invalidate(c, d, a) ==
    [k \in Clients |->
        IF k # c /\ ( (tx[k].pc = "book_commit" /\ tx[k].dateId = d)
                      \/ (tx[k].pc = "cancel_commit" /\ tx[k].appointmentId = a) )
        THEN [tx[k] EXCEPT !.stale = TRUE]
        ELSE tx[k]]

\* mutant: the call ends without handing a result to its caller
FailUnreported(c, op, err) ==
    /\ tx' = [tx EXCEPT ![c] = IdleTx]
    /\ UNCHANGED last

\* the promise of the call rejects: catch block, lines 207-210 / 313-316
Fail(c, op, err) ==
    /\ tx' = [tx EXCEPT ![c] = IdleTx]
    /\ Record(Outcome(c, op, tx[c].dateId, tx[c].timeId, tx[c].appointmentId, FALSE, err))

\* mutant: no limit on the attempts
RetryUnbounded(c, op, again) ==
    /\ tx' = [tx EXCEPT ![c].pc = again, ![c].stale = FALSE]
    /\ UNCHANGED last

\* mutant: a commit refused for contention is not tried again
RetryNever(c, op, again) == Fail(c, op, ErrAborted)

\* a commit refused for contention: run the update function again, or give up
Retry(c, op, again) ==
    IF tx[c].attempts < MaxAttempts
    THEN /\ tx' = [tx EXCEPT ![c].pc = again, ![c].attempts = @ + 1, ![c].stale = FALSE]
         /\ UNCHANGED last
    ELSE Fail(c, op, ErrAborted)

\* a writer that is not one of the instances commits a change to a document the
\* transaction has read, while the transaction waits for its own commit
Contend(c) ==
    /\ tx[c].pc \in {"book_commit", "cancel_commit"}
    /\ ~tx[c].stale
    /\ tx' = [tx EXCEPT ![c].stale = TRUE]
    /\ UNCHANGED <<dates, times, appointments, currentUser, datesCache, get, now, last,
                   seed, lastWrite>>
    /\ UNCHANGED aux

BooksInFlight == Cardinality({k \in Clients : tx[k].pc \in {"book_txn", "book_commit"}})

\* ----------------------------------------------------- bookAppointment
\* lines 152-160
BookStart(c, d, t) ==
    /\ tx[c].pc = "idle"
    /\ Len(appointments) + BooksInFlight < MaxAppts
    /\ IF currentUser[c] = NoUser
       THEN /\ Record(Outcome(c, "book", d, t, 0, FALSE, ErrNotAuthenticated))
            /\ UNCHANGED tx
       ELSE /\ tx' = [tx EXCEPT ![c] = [IdleTx EXCEPT !.pc = "book_txn", !.dateId = d,
                                                      !.timeId = t, !.attempts = 1]]
            /\ UNCHANGED last
    /\ UNCHANGED <<dates, times, appointments, currentUser, datesCache, get, now, seed, lastWrite>>
    /\ UNCHANGED aux

\* mutant: the availability test of line 170 is missing
BookCheckNoAvailability(dateDoc, timeId) ==
    IF ~dateDoc.exists THEN ErrDateNotFound
    ELSE IF timeId \notin times THEN ErrTimeNotFound
    ELSE ""

\* mutant: the existence test of line 165 is missing
BookCheckNoDate(dateDoc, timeId) ==
    IF timeId \notin Range(dateDoc.availableTimeIds) THEN ErrSlotUnavailable
    ELSE IF timeId \notin times THEN ErrTimeNotFound
    ELSE ""

\* lines 165-179: the checks the update function makes on the documents it read
BookCheck(dateDoc, timeId) ==
    IF ~dateDoc.exists THEN ErrDateNotFound
    ELSE IF timeId \notin Range(dateDoc.availableTimeIds) THEN ErrSlotUnavailable
    ELSE IF timeId \notin times THEN ErrTimeNotFound
    ELSE ""

\* mutant: the update function decides on the instance's cache entry when it
\* has a fresh one
BookTxnTrustsCache(c) ==
    /\ tx[c].pc = "book_txn"
    /\ LET cached == datesCache[c][tx[c].dateId]
           doc == IF CacheFresh(cached, now) THEN DateDoc(cached.data)
                  ELSE dates[tx[c].dateId]
       IN IF BookCheck(doc, tx[c].timeId) # ""
          THEN Fail(c, "book", BookCheck(doc, tx[c].timeId))
          ELSE /\ tx' = [tx EXCEPT ![c].pc = "book_commit", ![c].stale = FALSE]
               /\ UNCHANGED last
    /\ UNCHANGED <<dates, times, appointments, currentUser, datesCache, get, now, seed,
                   lastWrite>>
    /\ UNCHANGED aux

\* lines 161-200: the update function (its reads; the writes are buffered)
BookTxn(c) ==
    /\ tx[c].pc = "book_txn"
    /\ IF BookCheck(dates[tx[c].dateId], tx[c].timeId) # ""
       THEN Fail(c, "book", BookCheck(dates[tx[c].dateId], tx[c].timeId))
       ELSE /\ tx' = [tx EXCEPT ![c].pc = "book_commit", ![c].stale = FALSE]
            /\ UNCHANGED last
    /\ UNCHANGED <<dates, times, appointments, currentUser, datesCache, get, now, seed,
                   lastWrite>>
    /\ UNCHANGED aux

\* the appointment document of lines 189-198
NewAppointment(id, d, t, uid) ==
    [appointmentId |-> id, dateId |-> d, timeId |-> t, userId |-> uid,
     status |-> "confirmed", cancelledAt |-> NoTimestamp]

\* the store decides the commit of lines 183-198
BookCommit(c) ==
    /\ tx[c].pc = "book_commit"
    /\ IF tx[c].stale
       THEN /\ Retry(c, "book", "book_txn")
            /\ UNCHANGED <<dates, appointments, lastWrite>>
       ELSE /\ dates' = [dates EXCEPT ![tx[c].dateId].availableTimeIds =
                                           ArrayRemove(@, tx[c].timeId)]
            /\ appointments' = Append(appointments,
                   NewAppointment(Len(appointments) + 1, tx[c].dateId, tx[c].timeId,
                                  currentUser[c]))
            /\ lastWrite' = [lastWrite EXCEPT ![tx[c].dateId] = now]
            /\ tx' = [Invalidate(c, tx[c].dateId, 0) EXCEPT
                          ![c].pc = "book_resolved",
                          ![c].appointmentId = Len(appointments) + 1]
            /\ UNCHANGED last
    /\ UNCHANGED <<times, currentUser, datesCache, get, now, seed>>
    /\ UNCHANGED aux

\* lines 203-206
BookReturn(c) ==
    /\ tx[c].pc = "book_resolved"
    /\ datesCache' = [datesCache EXCEPT ![c] = ClearDateCache(@, tx[c].dateId)]
    /\ Record(Outcome(c, "book", tx[c].dateId, tx[c].timeId, tx[c].appointmentId, TRUE, ""))
    /\ tx' = [tx EXCEPT ![c] = IdleTx]
    /\ UNCHANGED <<dates, times, appointments, currentUser, get, now, seed, lastWrite>>
    /\ UNCHANGED aux

\* --------------------------------------------------- cancelAppointment
\* lines 277-285
CancelStart(c, a) ==
    /\ tx[c].pc = "idle"
    /\ IF currentUser[c] = NoUser
       THEN /\ Record(Outcome(c, "cancel", "", "", a, FALSE, ErrNotAuthenticated))
            /\ UNCHANGED tx
       ELSE /\ tx' = [tx EXCEPT ![c] = [IdleTx EXCEPT !.pc = "cancel_txn",
                                                      !.appointmentId = a, !.attempts = 1]]
            /\ UNCHANGED last
    /\ UNCHANGED <<dates, times, appointments, currentUser, datesCache, get, now, seed, lastWrite>>
    /\ UNCHANGED aux

\* mutant: the ownership test of line 295 is missing
CancelCheckNoOwner(c, appointment) == ""

\* lines 286-297: the checks the update function makes on the appointment it read
CancelCheck(c, appointment) ==
    IF appointment.userId # currentUser[c] THEN ErrUnauthorized ELSE ""

\* mutant: the existence test of line 290 is missing; a cancel of an id without
\* a document goes through as if there were nothing to do
CancelTxnNoLookup(c) ==
    /\ tx[c].pc = "cancel_txn"
    /\ IF tx[c].appointmentId \notin DOMAIN appointments
       THEN /\ tx' = [tx EXCEPT ![c].pc = "cancel_resolved"]
            /\ UNCHANGED last
       ELSE IF CancelCheck(c, appointments[tx[c].appointmentId]) # ""
       THEN Fail(c, "cancel", CancelCheck(c, appointments[tx[c].appointmentId]))
       ELSE /\ tx' = [tx EXCEPT ![c].pc = "cancel_commit", ![c].stale = FALSE,
                                ![c].dateId = appointments[tx[c].appointmentId].dateId,
                                ![c].timeId = appointments[tx[c].appointmentId].timeId]
            /\ UNCHANGED last
    /\ UNCHANGED <<dates, times, appointments, currentUser, datesCache, get, now, seed, lastWrite>>
    /\ UNCHANGED aux

\* lines 286-309: the update function
CancelTxn(c) ==
    /\ tx[c].pc = "cancel_txn"
    /\ IF tx[c].appointmentId \notin DOMAIN appointments
       THEN Fail(c, "cancel", ErrAppointmentNotFound)
       ELSE IF CancelCheck(c, appointments[tx[c].appointmentId]) # ""
       THEN Fail(c, "cancel", CancelCheck(c, appointments[tx[c].appointmentId]))
       ELSE /\ tx' = [tx EXCEPT ![c].pc = "cancel_commit", ![c].stale = FALSE,
                                ![c].dateId = appointments[tx[c].appointmentId].dateId,
                                ![c].timeId = appointments[tx[c].appointmentId].timeId]
            /\ UNCHANGED last
    /\ UNCHANGED <<dates, times, appointments, currentUser, datesCache, get, now, seed, lastWrite>>
    /\ UNCHANGED aux

\* mutant: the two writes are not one transaction; the appointment is written
\* even when the update of the date document is refused
CancelCommitSplit(c) ==
    /\ tx[c].pc = "cancel_commit"
    /\ IF tx[c].stale
       THEN /\ Retry(c, "cancel", "cancel_txn")
            /\ UNCHANGED <<dates, appointments, lastWrite>>
       ELSE /\ appointments' = [appointments EXCEPT
                                   ![tx[c].appointmentId].status = "cancelled",
                                   ![tx[c].appointmentId].cancelledAt = now]
            /\ IF ~dates[tx[c].dateId].exists
               THEN /\ Fail(c, "cancel", ErrNoDocument)
                    /\ UNCHANGED <<dates, lastWrite>>
               ELSE /\ dates' = [dates EXCEPT ![tx[c].dateId].availableTimeIds =
                                                   ArrayUnion(@, tx[c].timeId)]
                    /\ lastWrite' = [lastWrite EXCEPT ![tx[c].dateId] = now]
                    /\ tx' = [Invalidate(c, tx[c].dateId, tx[c].appointmentId) EXCEPT
                                  ![c].pc = "cancel_resolved"]
                    /\ UNCHANGED last
    /\ UNCHANGED <<times, currentUser, datesCache, get, now, seed>>
    /\ UNCHANGED aux

\* the store decides the commit of lines 301-309
CancelCommit(c) ==
    /\ tx[c].pc = "cancel_commit"
    /\ IF tx[c].stale
       THEN /\ Retry(c, "cancel", "cancel_txn")
            /\ UNCHANGED <<dates, appointments, lastWrite>>
       ELSE IF ~dates[tx[c].dateId].exists
       THEN /\ Fail(c, "cancel", ErrNoDocument)
            /\ UNCHANGED <<dates, appointments, lastWrite>>
       ELSE /\ dates' = [dates EXCEPT ![tx[c].dateId].availableTimeIds =
                                           ArrayUnion(@, tx[c].timeId)]
            /\ appointments' = [appointments EXCEPT
                                   ![tx[c].appointmentId].status = "cancelled",
                                   ![tx[c].appointmentId].cancelledAt = now]
            /\ lastWrite' = [lastWrite EXCEPT ![tx[c].dateId] = now]
            /\ tx' = [Invalidate(c, tx[c].dateId, tx[c].appointmentId) EXCEPT
                          ![c].pc = "cancel_resolved"]
            /\ UNCHANGED last
    /\ UNCHANGED <<times, currentUser, datesCache, get, now, seed>>
    /\ UNCHANGED aux

\* line 312
CancelReturn(c) ==
    /\ tx[c].pc = "cancel_resolved"
    /\ Record(Outcome(c, "cancel", tx[c].dateId, tx[c].timeId, tx[c].appointmentId, TRUE, ""))
    /\ tx' = [tx EXCEPT ![c] = IdleTx]
    /\ UNCHANGED <<dates, times, appointments, currentUser, datesCache, get, now, seed, lastWrite>>
    /\ UNCHANGED aux

\* ---------------------------------------------------------- AuthService
\* AuthService as constructed, before onAuthStateChanged has called back; session
\* is the user that Firebase will restore from its persistence (NoUser: none)
AuthPending(session) ==
    [initialized |-> FALSE, user |-> NoUser, session |-> session, listener |-> "pending",
     wait |-> "none", timer |-> FALSE, subscribed |-> FALSE, resolved |-> FALSE,
     result |-> NoUser, resolves |-> 0]

\* the promise of waitForAuthInit resolves with currentUser$.value; the subscription
\* is released (auth.service.ts lines 137-146 and 151-164)
Resolved(a) ==
    [a EXCEPT !.resolved = TRUE, !.subscribed = FALSE, !.wait = "resolved",
              !.result = a.user, !.resolves = @ + 1]

\* authInitialized$.next(true) reaches the subscriber of lines 150-165, if any
Notify(a) ==
    IF a.subscribed /\ ~a.resolved THEN [Resolved(a) EXCEPT !.timer = FALSE] ELSE a

\* auth.service.ts lines 68-98: the callback of onAuthStateChanged runs; with a user
\* it awaits the token refresh before it goes on
AuthStateChanged(c) ==
    /\ auth[c].listener = "pending"
    /\ auth' = [auth EXCEPT ![c] =
                   IF auth[c].session # NoUser
                   THEN [@ EXCEPT !.user = auth[c].session, !.listener = "refreshing"]
                   ELSE Notify([@ EXCEPT !.user = NoUser, !.initialized = TRUE,
                                         !.listener = "done"])]
    /\ UNCHANGED <<dates, times, appointments, currentUser, datesCache, tx, get, now, last,
                   seed, lastWrite, list, sel>>

\* auth.service.ts lines 85-97: the token refresh has come back
AuthRefreshed(c) ==
    /\ auth[c].listener = "refreshing"
    /\ auth' = [auth EXCEPT ![c] = Notify([@ EXCEPT !.initialized = TRUE,
                                                    !.listener = "done"])]
    /\ UNCHANGED <<dates, times, appointments, currentUser, datesCache, tx, get, now, last,
                   seed, lastWrite, list, sel>>

\* auth.service.ts lines 113-165: a call of the appointments service begins with
\* waitForAuthInit
WaitStart(c) ==
    /\ auth[c].wait = "none"
    /\ tx[c].pc = "idle" /\ list[c].pc = "idle"
    /\ auth' = [auth EXCEPT ![c] =
                   IF auth[c].initialized
                   THEN [@ EXCEPT !.wait = "resolved", !.result = auth[c].user,
                                  !.resolves = 1, !.resolved = FALSE]
                   ELSE [@ EXCEPT !.wait = "waiting", !.timer = TRUE, !.subscribed = TRUE,
                                  !.resolved = FALSE, !.resolves = 0]]
    /\ UNCHANGED <<dates, times, appointments, currentUser, datesCache, tx, get, now, last,
                   seed, lastWrite, list, sel>>

\* mutant: the timer never fires
WaitTimeoutNever(c) == FALSE /\ UNCHANGED vars

\* auth.service.ts lines 136-147: the timeout fires
WaitTimeout(c) ==
    /\ auth[c].timer
    /\ auth' = [auth EXCEPT ![c] =
                   IF auth[c].resolved THEN [@ EXCEPT !.timer = FALSE]
                   ELSE [Resolved(@) EXCEPT !.timer = FALSE]]
    /\ UNCHANGED <<dates, times, appointments, currentUser, datesCache, tx, get, now, last,
                   seed, lastWrite, list, sel>>

\* appointments.service.ts lines 152-160 with the user waitForAuthInit resolved with
AuthBookStart(c, d, t) ==
    /\ auth[c].wait = "resolved"
    /\ tx[c].pc = "idle"
    /\ Len(appointments) + BooksInFlight < MaxAppts
    /\ auth' = [auth EXCEPT ![c].wait = "none"]
    /\ currentUser' = [currentUser EXCEPT ![c] = auth[c].result]
    /\ IF auth[c].result = NoUser
       THEN /\ Record(Outcome(c, "book", d, t, 0, FALSE, ErrNotAuthenticated))
            /\ UNCHANGED tx
       ELSE /\ tx' = [tx EXCEPT ![c] = [IdleTx EXCEPT !.pc = "book_txn", !.dateId = d,
                                                      !.timeId = t, !.attempts = 1]]
            /\ UNCHANGED last
    /\ UNCHANGED <<dates, times, appointments, datesCache, get, now, seed, lastWrite, list,
                   sel>>

\* appointments.service.ts lines 277-285, likewise
AuthCancelStart(c, a) ==
    /\ auth[c].wait = "resolved"
    /\ tx[c].pc = "idle"
    /\ auth' = [auth EXCEPT ![c].wait = "none"]
    /\ currentUser' = [currentUser EXCEPT ![c] = auth[c].result]
    /\ IF auth[c].result = NoUser
       THEN /\ Record(Outcome(c, "cancel", "", "", a, FALSE, ErrNotAuthenticated))
            /\ UNCHANGED tx
       ELSE /\ tx' = [tx EXCEPT ![c] = [IdleTx EXCEPT !.pc = "cancel_txn",
                                                      !.appointmentId = a, !.attempts = 1]]
            /\ UNCHANGED last
    /\ UNCHANGED <<dates, times, appointments, datesCache, get, now, seed, lastWrite, list,
                   sel>>

\* appointments.service.ts lines 218-230, likewise
AuthListStart(c) ==
    /\ auth[c].wait = "resolved"
    /\ list[c].pc = "idle"
    /\ auth' = [auth EXCEPT ![c].wait = "none"]
    /\ currentUser' = [currentUser EXCEPT ![c] = auth[c].result]
    /\ IF auth[c].result = NoUser
       THEN /\ Record(ListOutcome(c, <<>>))
            /\ UNCHANGED list
       ELSE /\ list' = [list EXCEPT ![c] = [pc |-> "query", uid |-> auth[c].result]]
            /\ UNCHANGED last
    /\ UNCHANGED <<dates, times, appointments, datesCache, tx, get, now, seed, lastWrite,
                   sel>>

\* --------------------------------------------------------- TimeSelector
\* the time field of the time document of a timeId (seed-slots.ts lines 17-34,
\* 139-146)
TimeOf(timeId) ==
    CASE timeId = "8-00_AM" -> "8:00 AM"
      [] timeId = "8-30_AM" -> "8:30 AM"
      [] OTHER -> "undefined"

\* the service instance the component has injected (line 17)
SelectorInstance == "c1"

\* time-selector.ts lines 60-66: the times of the timeIds the catalog knows
MapToTimes(ids) ==
    LET known == SelectSeq(ids, LAMBDA id : id \in times)
    IN [i \in 1..Len(known) |-> TimeOf(known[i])]

\* time-selector.ts lines 26-41: the input selectedDateId has changed to d
NgOnChanges(d) ==
    /\ d # sel.selectedDateId
    /\ IF d # NoDate
       THEN /\ \E i \in 1..MaxLoads : sel.loads[i].pc = "none"
            /\ LET i == CHOOSE k \in 1..MaxLoads :
                            /\ sel.loads[k].pc = "none"
                            /\ \A j \in 1..(k - 1) : sel.loads[j].pc # "none"
               IN sel' = [sel EXCEPT !.selectedDateId = d,
                                     !.loads[i] = [NoLoad EXCEPT !.pc = "scheduled"]]
       ELSE sel' = [sel EXCEPT !.selectedDateId = d, !.availableTimes = <<>>,
                               !.allTimeSlots = {}, !.disabledSlots = {}]
    /\ UNCHANGED <<dates, times, appointments, currentUser, datesCache, tx, get, now, last,
                   seed, lastWrite, auth, list>>

\* time-selector.ts lines 43-55 and appointments.service.ts lines 86-96: the
\* deferred loadAvailableTimes runs and reads selectedDateId as it is now
LoadStart(i) ==
    /\ sel.loads[i].pc = "scheduled"
    /\ LET d == sel.selectedDateId
           cached == datesCache[SelectorInstance][d]
       IN sel' = IF d = NoDate THEN [sel EXCEPT !.loads[i] = NoLoad]
                 ELSE IF CacheFresh(cached, now)
                 THEN [sel EXCEPT !.loading = TRUE,
                                  !.loads[i] = [NoLoad EXCEPT !.pc = "ready", !.dateId = d,
                                                             !.data = DateDoc(cached.data)]]
                 ELSE [sel EXCEPT !.loading = TRUE,
                                  !.loads[i] = [NoLoad EXCEPT !.pc = "get_fetch",
                                                             !.dateId = d, !.now = now]]
    /\ UNCHANGED <<dates, times, appointments, currentUser, datesCache, tx, get, now, last,
                   seed, lastWrite, auth, list>>

\* appointments.service.ts line 97: the store serves the getDoc of a load
LoadFetch(i) ==
    /\ sel.loads[i].pc = "get_fetch"
    /\ sel' = [sel EXCEPT !.loads[i].pc = "get_resume",
                          !.loads[i].data = dates[sel.loads[i].dateId],
                          !.loads[i].readAt = now]
    /\ UNCHANGED <<dates, times, appointments, currentUser, datesCache, tx, get, now, last,
                   seed, lastWrite, auth, list>>

\* appointments.service.ts lines 99-108 and time-selector.ts lines 57-81: the
\* continuations after the await, of getDateAvailability and of
\* loadAvailableTimes (allTimeSlots and disabledSlots as sets)
LoadResolve(i) ==
    /\ sel.loads[i].pc \in {"ready", "get_resume"}
    /\ LET load == sel.loads[i]
           ids == IF load.data.exists THEN load.data.availableTimeIds ELSE <<>>
           all == {TimeOf(t) : t \in times}
       IN /\ datesCache' =
               IF load.pc = "get_resume" /\ load.data.exists
               THEN [datesCache EXCEPT ![SelectorInstance][load.dateId] = CacheEntry(load)]
               ELSE datesCache
          /\ sel' = [sel EXCEPT !.allTimeSlots = all,
                                !.availableTimes = MapToTimes(ids),
                                !.disabledSlots = all \ Range(MapToTimes(ids)),
                                !.loading = FALSE,
                                !.loads[i] = NoLoad]
    /\ UNCHANGED <<dates, times, appointments, currentUser, tx, get, now, last, seed,
                   lastWrite, auth, list>>

\* ------------------------------------------------- getUserAppointments
\* the dateIds in the order String.prototype.localeCompare gives them (line 262;
\* the appointment's date field is the date document's date, which the seed
\* script sets to the dateId)
DateOrder == <<"2025-10-01", "2025-10-02">>
DateRank(d) == CHOOSE i \in DOMAIN DateOrder : DateOrder[i] = d

\* all orders in which the documents of a set can come back from a query
Orders(S) ==
    {q \in [1..Cardinality(S) -> S] : \A i, j \in 1..Cardinality(S) : i # j => q[i] # q[j]}

\* insert appointment a into a list sorted by date, behind the entries of its date
RECURSIVE InsertByDate(_, _)
InsertByDate(q, a) ==
    IF q = <<>> THEN <<a>>
    ELSE IF DateRank(appointments[a].dateId) < DateRank(appointments[Head(q)].dateId)
         THEN <<a>> \o q
         ELSE <<Head(q)>> \o InsertByDate(Tail(q), a)

\* mutant: the list is returned in the order of the query
Unsorted(q) == q

\* Array.prototype.sort with the comparator of line 262 (stable)
RECURSIVE SortByDate(_)
SortByDate(q) ==
    IF q = <<>> THEN <<>>
    ELSE InsertByDate(SortByDate(SubSeq(q, 1, Len(q) - 1)), q[Len(q)])

\* lines 218-230: waitForAuthInit has answered; no user, empty list
ListStart(c) ==
    /\ list[c].pc = "idle"
    /\ IF currentUser[c] = NoUser
       THEN /\ Record(ListOutcome(c, <<>>))
            /\ UNCHANGED list
       ELSE /\ list' = [list EXCEPT ![c] = [pc |-> "query", uid |-> currentUser[c]]]
            /\ UNCHANGED last
    /\ UNCHANGED <<dates, times, appointments, currentUser, datesCache, tx, get, now, seed,
                   lastWrite, auth, sel>>

\* lines 232-271: the store answers the query where userId == uid; the documents
\* are filtered to the confirmed ones and sorted by date
ListQuery(c) ==
    /\ list[c].pc = "query"
    /\ \E snapshot \in Orders({a \in DOMAIN appointments :
                                    appointments[a].userId = list[c].uid}) :
          Record(ListOutcome(c, SortByDate(SelectSeq(snapshot,
                     LAMBDA a : appointments[a].status = "confirmed"))))
    /\ list' = [list EXCEPT ![c] = IdleList]
    /\ UNCHANGED <<dates, times, appointments, currentUser, datesCache, tx, get, now, seed,
                   lastWrite, auth, sel>>

\* ---------------------------------------------------------- specification
Next ==
    \/ Tick
    \/ \E c \in Clients, d \in DateIds : GetStart(c, d)
    \/ \E c \in Clients : GetFetch(c)
    \/ \E c \in Clients : GetResume(c)
    \/ \E c \in Clients, d \in DateIds, t \in TimeIds : BookStart(c, d, t)
    \/ \E c \in Clients : BookTxn(c)
    \/ \E c \in Clients : BookCommit(c)
    \/ \E c \in Clients : BookReturn(c)
    \/ \E c \in Clients, a \in 1..MaxAppts : CancelStart(c, a)
    \/ \E c \in Clients : CancelTxn(c)
    \/ \E c \in Clients : CancelCommit(c)
    \/ \E c \in Clients : CancelReturn(c)
    \/ \E c \in Clients : Contend(c)
    \/ \E c \in Clients : GetFetchFails(c)
    \/ \E c \in Clients, d \in DateIds \cup {"", Undefined} : ClearCall(c, d)
    \/ \E c \in Clients : ListStart(c)
    \/ \E c \in Clients : ListQuery(c)
    \/ \E c \in Clients : AuthStateChanged(c)
    \/ \E c \in Clients : AuthRefreshed(c)
    \/ \E c \in Clients : WaitStart(c)
    \/ \E c \in Clients : WaitTimeout(c)
    \/ \E c \in Clients, d \in DateIds, t \in TimeIds : AuthBookStart(c, d, t)
    \/ \E c \in Clients, a \in 1..MaxAppts : AuthCancelStart(c, a)
    \/ \E c \in Clients : AuthListStart(c)
    \/ \E d \in DateIds \cup {NoDate} : NgOnChanges(d)
    \/ \E i \in 1..MaxLoads : LoadStart(i)
    \/ \E i \in 1..MaxLoads : LoadFetch(i)
    \/ \E i \in 1..MaxLoads : LoadResolve(i)

Spec == Init /\ [][Next]_vars

\* ------------------------------------------------------------ scenarios
\* The specifications below run the same operations from a seeded store with
\* one date document (the other dateId has none), each for a group of callers.
D1 == "2025-10-01"
T1 == "8-00_AM"
T2 == "8-30_AM"

Seeds == {DateDoc(<<>>), DateDoc(<<T1>>), DateDoc(<<T1, T2>>)}

SignedIn == [c \in Clients |-> IF c = "c2" THEN "userB" ELSE "userA"]

InitSeeded(seeds) ==
    /\ dates \in [DateIds -> SeedDocs]
    /\ dates[D1] \in seeds
    /\ \A d \in DateIds \ {D1} : dates[d] = NoDoc
    /\ currentUser = SignedIn
    /\ InitCommon

AllIdle == \A c \in Clients : tx[c].pc = "idle" /\ get[c].pc = "idle"

\* --- SpecAlloc: two callers book and cancel concurrently
Callers == {"c1", "c2"}

NextAlloc ==
    \/ \E c \in Callers, d \in DateIds, t \in TimeIds : BookStart(c, d, t)
    \/ \E c \in Callers : BookTxn(c)
    \/ \E c \in Callers : BookCommit(c)
    \/ \E c \in Callers : BookReturn(c)
    \/ \E c \in Callers, a \in 1..MaxAppts : CancelStart(c, a)
    \/ \E c \in Callers : CancelTxn(c)
    \/ \E c \in Callers : CancelCommit(c)
    \/ \E c \in Callers : CancelReturn(c)

SpecAlloc == InitSeeded(Seeds) /\ [][NextAlloc]_vars

\* --- SpecSeq: calls issued one after the other; instance c1 also reads availability
SeqGetStart(c, d) == AllIdle /\ GetStart(c, d)
SeqBookStart(c, d, t) == AllIdle /\ BookStart(c, d, t)
SeqCancelStart(c, a) == AllIdle /\ CancelStart(c, a)

NextSeq ==
    \/ \E d \in DateIds : SeqGetStart("c1", d)
    \/ GetFetch("c1")
    \/ GetResume("c1")
    \/ \E c \in Callers, d \in DateIds, t \in TimeIds : SeqBookStart(c, d, t)
    \/ \E c \in Callers : BookTxn(c)
    \/ \E c \in Callers : BookCommit(c)
    \/ \E c \in Callers : BookReturn(c)
    \/ \E c \in Callers, a \in 1..MaxAppts : SeqCancelStart(c, a)
    \/ \E c \in Callers : CancelTxn(c)
    \/ \E c \in Callers : CancelCommit(c)
    \/ \E c \in Callers : CancelReturn(c)

SpecSeq == InitSeeded(Seeds) /\ [][NextSeq]_vars

\* --- SpecTTL: instance c1 reads, both instances book, one call at a time, while
\* the clock runs
NextTTL ==
    \/ Tick
    \/ \E d \in DateIds : SeqGetStart("c1", d)
    \/ GetFetch("c1")
    \/ GetResume("c1")
    \/ \E c \in Callers, d \in DateIds, t \in TimeIds : SeqBookStart(c, d, t)
    \/ \E c \in Callers : BookTxn(c)
    \/ \E c \in Callers : BookCommit(c)
    \/ \E c \in Callers : BookReturn(c)

SpecTTL == InitSeeded(Seeds) /\ [][NextTTL]_vars

\* --- SpecStale: instance c1 books and cancels, instance c2 reads through its
\* own cache, the clock runs
NextStale ==
    \/ Tick
    \/ GetStart("c2", D1)
    \/ GetFetch("c2")
    \/ GetResume("c2")
    \/ \E t \in TimeIds : BookStart("c1", D1, t)
    \/ BookTxn("c1")
    \/ BookCommit("c1")
    \/ BookReturn("c1")
    \/ \E a \in 1..MaxAppts : CancelStart("c1", a)
    \/ CancelTxn("c1")
    \/ CancelCommit("c1")
    \/ CancelReturn("c1")

SpecStale == InitSeeded({DateDoc(<<T1>>)}) /\ [][NextStale]_vars

\* --- SpecRace: every instance books one and the same slot, available in the seed
RaceSlot(d, t) ==
    /\ seed[d].exists /\ t \in Range(seed[d].availableTimeIds)
    /\ \A k \in Clients : tx[k].pc # "idle" => tx[k].dateId = d /\ tx[k].timeId = t
    /\ last.op # "none" => last.dateId = d /\ last.timeId = t

RaceBookStart(c, d, t) == RaceSlot(d, t) /\ BookStart(c, d, t)

NextRace ==
    \/ \E c \in Clients, d \in DateIds, t \in TimeIds : RaceBookStart(c, d, t)
    \/ \E c \in Clients : BookTxn(c)
    \/ \E c \in Clients : BookCommit(c)
    \/ \E c \in Clients : BookReturn(c)

SpecRace == InitSeeded(SeedDocs) /\ [][NextRace]_vars

\* --- SpecRoundTrip: one caller books an available slot, cancels the appointment,
\* books the slot again, and so on
RtBookStart(c, d, t) ==
    /\ AllIdle
    /\ \/ /\ appointments = <<>>
          /\ last.op = "none"
          /\ dates[d].exists /\ t \in Range(dates[d].availableTimeIds)
       \/ /\ last.op = "cancel" /\ last.client = c
          /\ last.dateId = d /\ last.timeId = t
    /\ BookStart(c, d, t)

RtCancelStart(c) ==
    /\ AllIdle
    /\ last.op = "book" /\ last.client = c
    /\ CancelStart(c, last.appointmentId)

NextRoundTrip ==
    \/ \E c \in Callers, d \in DateIds, t \in TimeIds : RtBookStart(c, d, t)
    \/ \E c \in Callers : BookTxn(c)
    \/ \E c \in Callers : BookCommit(c)
    \/ \E c \in Callers : BookReturn(c)
    \/ \E c \in Callers : RtCancelStart(c)
    \/ \E c \in Callers : CancelTxn(c)
    \/ \E c \in Callers : CancelCommit(c)
    \/ \E c \in Callers : CancelReturn(c)

SpecRoundTrip == InitSeeded(SeedDocs) /\ [][NextRoundTrip]_vars

\* --- SpecOrphan: as SpecAlloc, from a store whose ledger already holds a
\* confirmed appointment for a dateId whose document is gone (the service never
\* deletes a date document; one removed in the console leaves this state)
D2 == "2025-10-02"

InitOrphan ==
    /\ dates \in [DateIds -> SeedDocs]
    /\ dates[D1] \in Seeds
    /\ dates[D2] = NoDoc
    /\ times = TimeIds
    /\ appointments = <<NewAppointment(1, D2, T1, "userA")>>
    /\ currentUser = SignedIn
    /\ datesCache = [c \in Clients |-> [d \in DateIds |-> NoEntry]]
    /\ tx = [c \in Clients |-> IdleTx]
    /\ get = [c \in Clients |-> IdleGet]
    /\ now = 0
    /\ last = NoOutcome
    /\ seed = dates
    /\ lastWrite = [d \in DateIds |-> 0 - CACHE_DURATION]
    /\ InitAux

SpecOrphan == InitOrphan /\ [][NextAlloc]_vars

\* --- SpecArgs: as SpecAlloc, with bookings that also name a timeId the seed
\* script never creates, from a store in which seedTimes created every time
\* document or failed to create one (its catch logs the error and goes on)
UnknownTime == "4-00_PM"
TimeArgs == TimeIds \cup {UnknownTime}

InitArgs ==
    /\ dates \in [DateIds -> SeedDocs]
    /\ dates[D1] \in Seeds \ {DateDoc(<<>>)}
    /\ dates[D2] = NoDoc
    /\ times \in {TimeIds, TimeIds \ {T2}}
    /\ appointments = <<>>
    /\ currentUser = SignedIn
    /\ datesCache = [c \in Clients |-> [d \in DateIds |-> NoEntry]]
    /\ tx = [c \in Clients |-> IdleTx]
    /\ get = [c \in Clients |-> IdleGet]
    /\ now = 0
    /\ last = NoOutcome
    /\ seed = dates
    /\ lastWrite = [d \in DateIds |-> 0 - CACHE_DURATION]
    /\ InitAux

NextArgs ==
    \/ \E c \in Callers, d \in DateIds, t \in TimeArgs : BookStart(c, d, t)
    \/ \E c \in Callers : BookTxn(c)
    \/ \E c \in Callers : BookCommit(c)
    \/ \E c \in Callers : BookReturn(c)
    \/ \E c \in Callers, a \in 1..MaxAppts : CancelStart(c, a)
    \/ \E c \in Callers : CancelTxn(c)
    \/ \E c \in Callers : CancelCommit(c)
    \/ \E c \in Callers : CancelReturn(c)

SpecArgs == InitArgs /\ [][NextArgs]_vars

\* --- SpecLive: instance c1 books and cancels, instance c2 books the same slot,
\* concurrently, while other writers contend; the event loop runs every continuation that is ready and the
\* store answers every commit it was sent
Step(c) ==
    \/ BookTxn(c)
    \/ BookCommit(c)
    \/ BookReturn(c)
    \/ CancelTxn(c)
    \/ CancelCommit(c)
    \/ CancelReturn(c)

NextLive ==
    \/ \E d \in DateIds : BookStart("c1", d, T1)
    \/ BookStart("c2", D1, T1)
    \/ \E a \in 1..MaxAppts : CancelStart("c1", a)
    \/ \E c \in Callers : Step(c)
    \/ \E c \in Callers : Contend(c)

SpecLive ==
    /\ InitSeeded({DateDoc(<<T1>>)})
    /\ [][NextLive]_vars
    /\ \A c \in Callers : WF_vars(Step(c))

\* --- SpecFaults: as SpecLive without the fairness, from the store of SpecOrphan
\* with one slot on offer, and with instance c3, which has no signed-in user
InitFaults ==
    /\ dates = [d \in DateIds |-> IF d = D1 THEN DateDoc(<<T1>>) ELSE NoDoc]
    /\ times = TimeIds
    /\ appointments = <<NewAppointment(1, D2, T1, "userA")>>
    /\ currentUser = [SignedIn EXCEPT !["c3"] = NoUser]
    /\ datesCache = [c \in Clients |-> [d \in DateIds |-> NoEntry]]
    /\ tx = [c \in Clients |-> IdleTx]
    /\ get = [c \in Clients |-> IdleGet]
    /\ now = 0
    /\ last = NoOutcome
    /\ seed = dates
    /\ lastWrite = [d \in DateIds |-> 0 - CACHE_DURATION]
    /\ InitAux

NextFaults ==
    \/ NextLive
    \/ \E d \in DateIds : BookStart("c3", d, T1)
    \/ \E a \in 1..MaxAppts : CancelStart("c3", a)

SpecFaults == InitFaults /\ [][NextFaults]_vars

\* --- SpecGetFail: as SpecTTL, with reads of the store that may fail
NextGetFail ==
    \/ NextTTL
    \/ GetFetchFails("c1")

SpecGetFail == InitSeeded(Seeds) /\ [][NextGetFail]_vars

\* --- SpecClear: two instances read the availability of two dates, one call at
\* a time, and clear their caches, with and without an argument; the clock runs
InitBoth ==
    /\ dates = [d \in DateIds |-> IF d = D1 THEN DateDoc(<<T1>>) ELSE DateDoc(<<T2, T1>>)]
    /\ currentUser = SignedIn
    /\ InitCommon

NextClear ==
    \/ Tick
    \/ \E c \in Callers, d \in DateIds : SeqGetStart(c, d)
    \/ \E c \in Callers : GetFetch(c)
    \/ \E c \in Callers : GetResume(c)
    \/ \E c \in Callers, d \in DateIds \cup {"", Undefined} : ClearCall(c, d)

SpecClear == InitBoth /\ [][NextClear]_vars

\* --- SpecList: two users book and cancel on two dates, one call at a time;
\* instance c1 and instance c3, which has no signed-in user, list appointments
\* while those calls run
InitList ==
    /\ dates = [d \in DateIds |-> DateDoc(<<T1>>)]
    /\ currentUser = [SignedIn EXCEPT !["c3"] = NoUser]
    /\ InitCommon

NextList ==
    \/ \E c \in Callers, d \in DateIds, t \in TimeIds : SeqBookStart(c, d, t)
    \/ \E c \in Callers : BookTxn(c)
    \/ \E c \in Callers : BookCommit(c)
    \/ \E c \in Callers : BookReturn(c)
    \/ \E c \in Callers, a \in 1..MaxAppts : SeqCancelStart(c, a)
    \/ \E c \in Callers : CancelTxn(c)
    \/ \E c \in Callers : CancelCommit(c)
    \/ \E c \in Callers : CancelReturn(c)
    \/ \E c \in {"c1", "c3"} : ListStart(c)
    \/ ListQuery("c1")

SpecList == InitList /\ [][NextList]_vars

\* --- SpecAuth: instance c1 starts before its AuthService has heard from
\* Firebase; its calls wait for the initialization; timers that are armed fire
InitAuth ==
    /\ dates = [d \in DateIds |-> IF d = D1 THEN DateDoc(<<T1>>) ELSE NoDoc]
    /\ times = TimeIds
    /\ appointments = <<>>
    /\ currentUser = [c \in Clients |-> IF c = "c1" THEN NoUser ELSE SignedIn[c]]
    /\ datesCache = [c \in Clients |-> [d \in DateIds |-> NoEntry]]
    /\ tx = [c \in Clients |-> IdleTx]
    /\ get = [c \in Clients |-> IdleGet]
    /\ now = 0
    /\ last = NoOutcome
    /\ seed = dates
    /\ lastWrite = [d \in DateIds |-> 0 - CACHE_DURATION]
    /\ \E session \in {"userA", NoUser} :
          auth = [c \in Clients |-> IF c = "c1" THEN AuthPending(session)
                                    ELSE AuthReady(SignedIn[c])]
    /\ list = [c \in Clients |-> IdleList]
    /\ sel = NoSelector

NextAuth ==
    \/ AuthStateChanged("c1")
    \/ AuthRefreshed("c1")
    \/ WaitStart("c1")
    \/ WaitTimeout("c1")
    \/ \E t \in TimeIds : AuthBookStart("c1", D1, t)
    \/ \E a \in 1..MaxAppts : AuthCancelStart("c1", a)
    \/ AuthListStart("c1")
    \/ ListQuery("c1")
    \/ Step("c1")

SpecAuth == InitAuth /\ [][NextAuth]_vars /\ WF_vars(WaitTimeout("c1"))

\* --- SpecInflight: one instance reads availability and books at the same time
NextInflight ==
    \/ Tick
    \/ GetStart("c1", D1)
    \/ GetFetch("c1")
    \/ GetResume("c1")
    \/ \E t \in TimeIds : BookStart("c1", D1, t)
    \/ BookTxn("c1")
    \/ BookCommit("c1")
    \/ BookReturn("c1")

SpecInflight == InitSeeded(Seeds) /\ [][NextInflight]_vars

\* --- SpecPair: two transactions at the same time on one date and different
\* timeIds: c1 books T1; c2 books T2, or cancels the confirmed appointment on T2
OnSlot(t) == {i \in 1..Len(appointments) :
                 appointments[i].dateId = D1 /\ appointments[i].timeId = t}

InitPair ==
    /\ currentUser = SignedIn
    /\ times = TimeIds
    /\ datesCache = [c \in Clients |-> [d \in DateIds |-> NoEntry]]
    /\ tx = [c \in Clients |-> IdleTx]
    /\ get = [c \in Clients |-> IdleGet]
    /\ now = 0
    /\ last = NoOutcome
    /\ lastWrite = [d \in DateIds |-> 0 - CACHE_DURATION]
    /\ InitAux
    /\ \E avail \in {<<T1, T2>>, <<T2, T1>>} :
          /\ seed = [d \in DateIds |-> IF d = D1 THEN DateDoc(avail) ELSE NoDoc]
          /\ \/ /\ dates = seed
                /\ appointments = <<>>
             \/ /\ dates = [seed EXCEPT ![D1].availableTimeIds = ArrayRemove(@, T2)]
                /\ appointments = <<NewAppointment(1, D1, T2, "userB")>>

PairBookStart(c, t) == OnSlot(t) = {} /\ BookStart(c, D1, t)

PairCancelStart(c, a) ==
    /\ a \in OnSlot(T2)
    /\ \A i \in OnSlot(T2) : appointments[i].status = "confirmed"
    /\ CancelStart(c, a)

NextPair ==
    \/ PairBookStart("c1", T1)
    \/ PairBookStart("c2", T2)
    \/ \E a \in 1..MaxAppts : PairCancelStart("c2", a)
    \/ \E c \in Callers : BookTxn(c)
    \/ \E c \in Callers : BookCommit(c)
    \/ \E c \in Callers : BookReturn(c)
    \/ CancelTxn("c2")
    \/ CancelCommit("c2")
    \/ CancelReturn("c2")

SpecPair == InitPair /\ [][NextPair]_vars

\* --- SpecSelector: the user changes the date of a TimeSelector while its loads
\* are under way; the two dates differ in what they have available
NextSelector ==
    \/ \E d \in DateIds \cup {NoDate} : NgOnChanges(d)
    \/ \E i \in 1..MaxLoads : LoadStart(i)
    \/ \E i \in 1..MaxLoads : LoadFetch(i)
    \/ \E i \in 1..MaxLoads : LoadResolve(i)

SpecSelector == InitBoth /\ [][NextSelector]_vars

\* ================================================================ claims
Confirmed(a) == a \in DOMAIN appointments /\ appointments[a].status = "confirmed"
Available(d, t) == dates[d].exists /\ t \in Range(dates[d].availableTimeIds)

\* C1: in every reachable state each (dateId, timeId) pair is referenced by at
\* most one appointment whose status is 'confirmed'.
MutualExclusion ==
    \A a, b \in DOMAIN appointments :
        (Confirmed(a) /\ Confirmed(b) /\ appointments[a].dateId = appointments[b].dateId
         /\ appointments[a].timeId = appointments[b].timeId) => a = b

\* C3: a slot is never both booked and available: if a confirmed appointment
\* exists for (dateId, timeId), timeId is not in that date's availableTimeIds.
BookedNotAvailable ==
    \A a \in DOMAIN appointments :
        Confirmed(a) => ~Available(appointments[a].dateId, appointments[a].timeId)

\* C2: when several callers race for one slot that the seed has available, at most
\* one appointment is created; a call that returns success returns that
\* appointment's id, every other call returns the slot-unavailable failure, and
\* it does so only once the slot is taken; after the winning commit the slot is
\* gone from availableTimeIds and every other timeId of the seed is still there,
\* in the seed's order; nothing else in the store has changed.
RaceOneWinner ==
    /\ Len(appointments) <= 1
    /\ Cardinality({k \in Clients : tx[k].pc = "book_resolved"})
         + (IF last.op = "book" /\ last.success THEN 1 ELSE 0) <= Len(appointments)
    /\ appointments = <<>> => dates = seed
    /\ Len(appointments) = 1 =>
         LET a == appointments[1]
             was == seed[a.dateId].availableTimeIds
             is == dates[a.dateId].availableTimeIds
         IN  /\ a.status = "confirmed"
             /\ a.timeId \notin Range(is)
             /\ Len(is) = Len(was) - 1
             /\ \A i, j \in DOMAIN is :
                    i < j => \E m, n \in DOMAIN was : m < n /\ was[m] = is[i] /\ was[n] = is[j]
             /\ Range(is) = Range(was) \ {a.timeId}
             /\ \A d \in DateIds \ {a.dateId} : dates[d] = seed[d]
    /\ last.op = "book" =>
         IF last.success
         THEN /\ Len(appointments) = 1 /\ last.appointmentId = 1
              /\ appointments[1].dateId = last.dateId
              /\ appointments[1].timeId = last.timeId
              /\ appointments[1].userId = currentUser[last.client]
         ELSE /\ last.error = ErrSlotUnavailable
              /\ Len(appointments) = 1

\* C2 witness: three calls are in flight for the slot; one has committed, the two
\* others had read the slot as available and are refused at their commit.
RaceAfterWinner ==
    \E c \in Clients :
        /\ tx[c].pc = "book_resolved"
        /\ \A k \in Clients \ {c} : tx[k].pc = "book_commit" /\ tx[k].stale
        /\ \E t \in TimeIds : Available(tx[c].dateId, t)

\* C4: the second of two consecutive cancels of one appointment by its owner
\* returns the already-cancelled failure, and changes neither the appointment nor
\* the date's availableTimeIds.
CancelTwice ==
    [][\A c \in Clients :
         ( /\ last.op = "cancel" /\ last.success /\ last.client = c
           /\ tx[c].pc \in {"cancel_txn", "cancel_commit", "cancel_resolved"}
           /\ tx[c].appointmentId = last.appointmentId )
         => /\ UNCHANGED <<dates, appointments>>
            /\ tx'[c].pc = "idle" => (~last'.success /\ last'.error = "Appointment already cancelled")
      ]_vars

\* C5: round trip: every call of the sequence book, cancel, book, ... on one slot
\* succeeds; after a cancel the slot is available again; every book creates a new
\* appointment, the only confirmed one, and leaves the availability that the first
\* book left: the seed's list without the slot.
RoundTrip ==
    /\ last.op # "none" => last.success
    /\ (last.op = "cancel" /\ \A c \in Clients : tx[c].pc \in {"idle", "book_txn", "book_commit"})
         => /\ Available(last.dateId, last.timeId)
            /\ appointments[last.appointmentId].status = "cancelled"
    /\ (last.op = "book" /\ \A c \in Clients : tx[c].pc \in {"idle", "cancel_txn", "cancel_commit"})
         => /\ last.appointmentId = Len(appointments)
            /\ Confirmed(last.appointmentId)
            /\ \A b \in 1..(last.appointmentId - 1) : appointments[b].status = "cancelled"
            /\ dates[last.dateId].availableTimeIds =
                 SelectSeq(seed[last.dateId].availableTimeIds, LAMBDA e : e # last.timeId)

\* C5 witness: the second book of a slot has returned its new appointment.
RoundTripDone ==
    /\ last.op = "book" /\ last.success /\ last.appointmentId = 2
    /\ appointments[1].status = "cancelled"
    /\ appointments[1].timeId = appointments[2].timeId
    /\ AllIdle

\* C6: when bookAppointment returns success the instance's cache entry for the
\* date is removed, and the very next call to return, if it is a
\* getDateAvailability of that date on that instance, was not served from the
\* cache and its availableTimeIds does not contain the booked timeId.
BookClearsCache ==
    [][ /\ \A c \in Clients :
             (tx[c].pc = "book_resolved" /\ tx'[c].pc = "idle")
                => ~datesCache'[c][tx[c].dateId].present
        /\ ( /\ last.op = "book" /\ last.success
             /\ last'.op = "get" /\ last'.client = last.client
             /\ last'.dateId = last.dateId )
           => (~last'.cacheHit /\ last.timeId \notin Range(last'.data))
      ]_vars

\* C6 witness: the booking has returned and the next get of the date on that
\* instance has gone to the store, which answered without the booked timeId.
GetAfterBook ==
    /\ last.op = "book" /\ last.success /\ last.client = "c1"
    /\ get["c1"].pc = "get_resume" /\ get["c1"].dateId = last.dateId
    /\ get["c1"].data.exists
    /\ last.timeId \notin Range(get["c1"].data.availableTimeIds)

\* C7: when cancelAppointment returns success the instance's cache entry for the
\* appointment's date is removed, and the very next call to return, if it is a
\* getDateAvailability of that date on that instance, returns availableTimeIds
\* that contains the released timeId.
CancelClearsCache ==
    [][ /\ \A c \in Clients :
             (tx[c].pc = "cancel_resolved" /\ tx'[c].pc = "idle")
                => ~datesCache'[c][tx[c].dateId].present
        /\ ( /\ last.op = "cancel" /\ last.success
             /\ last'.op = "get" /\ last'.client = last.client
             /\ last'.dateId = last.dateId )
           => last.timeId \in Range(last'.data)
      ]_vars

\* C8: a getDateAvailability is answered from the cache only when an entry exists
\* and its age is below CACHE_DURATION, and then with the entry's data; otherwise
\* the store's document is read, returned, and written to the cache with the
\* timestamp of the call, which replaces an expired entry by a newer one.
TTLRespected ==
    [][ /\ (last' # last /\ last'.op = "get" /\ last'.cacheHit) =>
             LET e == datesCache[last'.client][last'.dateId]
             IN  /\ e.present
                 /\ last'.age = now - e.timestamp
                 /\ last'.age < CACHE_DURATION
                 /\ last'.data = e.data
        /\ \A c \in Clients :
             (get[c].pc = "get_fetch" /\ get'[c].pc = "get_resume")
                => get'[c].data = dates[get[c].dateId]
        /\ \A c \in Clients :
             (get[c].pc = "get_resume" /\ get'[c].pc = "idle" /\ get[c].data.exists) =>
                LET old == datesCache[c][get[c].dateId]
                    new == datesCache'[c][get[c].dateId]
                IN  /\ new.present
                    /\ new.data = get[c].data.availableTimeIds
                    /\ new.timestamp = get[c].now
                    /\ old.present => new.timestamp - old.timestamp >= CACHE_DURATION
                    /\ last'.op = "get" /\ ~last'.cacheHit
                    /\ last'.data = get[c].data.availableTimeIds
      ]_vars

\* C8 witness: an entry of age CACHE_DURATION was not served; the store has been
\* read instead and holds other data than the entry.
ExpiredEntryRefetched ==
    LET g == get["c1"]
        e == datesCache["c1"][g.dateId]
    IN  /\ g.pc = "get_resume" /\ g.data.exists
        /\ e.present /\ g.now - e.timestamp = CACHE_DURATION
        /\ g.data.availableTimeIds # e.data

\* C9: the timestamp of a cache entry is never later than the store read that
\* produced its data; hence whatever a get would serve from a cache now was read
\* from the store less than CACHE_DURATION ago, and once CACHE_DURATION has passed
\* since the latest commit on a date, what any cache serves for it, and what any
\* get in flight that was issued since has read, is the date's current
\* availability.
BoundedStaleness ==
    \A c \in Clients, d \in DateIds :
        /\ LET e == datesCache[c][d]
           IN  e.present =>
                 /\ e.timestamp <= e.readAt /\ e.readAt <= now
                 /\ (now - e.timestamp) < CACHE_DURATION =>
                      /\ now - e.readAt < CACHE_DURATION
                      /\ now >= lastWrite[d] + CACHE_DURATION
                            => e.data = dates[d].availableTimeIds
        /\ (get[c].pc = "get_resume" /\ get[c].dateId = d) =>
             /\ get[c].now <= get[c].readAt
             /\ get[c].now >= lastWrite[d] + CACHE_DURATION => get[c].data = dates[d]

\* C9 witness: the other instance's booking was committed CACHE_DURATION ago and
\* the reader's cache still serves an entry for the date.
ServedAfterTTL ==
    LET e == datesCache["c2"][D1]
    IN  /\ e.present /\ (now - e.timestamp) < CACHE_DURATION
        /\ lastWrite[D1] >= 0 /\ now >= lastWrite[D1] + CACHE_DURATION
        /\ e.data # seed[D1].availableTimeIds

\* C10: the update function of a cancel issued by a caller who is not the
\* appointment's owner ends the call with the unauthorized failure and changes
\* neither the appointment nor any date; no such caller's cancel ever reaches
\* its commit.
UnauthorizedCancel ==
    [][\A c \in Clients :
         /\ ( /\ tx[c].pc = "cancel_txn" /\ tx'[c] # tx[c]
              /\ tx[c].appointmentId \in DOMAIN appointments
              /\ appointments[tx[c].appointmentId].userId # currentUser[c] )
            => /\ tx'[c].pc = "idle"
               /\ last' = Outcome(c, "cancel", "", "", tx[c].appointmentId, FALSE,
                                  ErrUnauthorized)
               /\ UNCHANGED <<dates, appointments>>
         /\ tx'[c].pc \in {"cancel_commit", "cancel_resolved"}
              => appointments'[tx'[c].appointmentId].userId = currentUser[c]
      ]_vars

\* C10 witness: a non-owner's cancel has been refused; the appointment is still
\* confirmed, has no cancelledAt, and its slot is still taken.
UnauthorizedRefused ==
    /\ last.op = "cancel" /\ last.error = ErrUnauthorized
    /\ Confirmed(last.appointmentId)
    /\ appointments[last.appointmentId].userId # currentUser[last.client]
    /\ appointments[last.appointmentId].cancelledAt = NoTimestamp
    /\ ~Available(appointments[last.appointmentId].dateId,
                  appointments[last.appointmentId].timeId)

\* C11: the update function of a bookAppointment on a dateId that has no
\* document ends the call with the 'Date not found' failure and changes neither
\* a date document nor the appointments; no booking of such a dateId ever
\* reaches its commit, so no document is created for it.
BookMissingDate ==
    [][\A c \in Clients :
         /\ ( /\ tx[c].pc = "book_txn" /\ tx'[c] # tx[c]
              /\ ~dates[tx[c].dateId].exists )
            => /\ tx'[c].pc = "idle"
               /\ last' = Outcome(c, "book", tx[c].dateId, tx[c].timeId, 0, FALSE,
                                  ErrDateNotFound)
               /\ UNCHANGED <<dates, appointments>>
         /\ tx'[c].pc \in {"book_commit", "book_resolved"}
              => dates'[tx'[c].dateId].exists
         /\ \A d \in DateIds : dates'[d].exists = dates[d].exists
      ]_vars

\* C11 witness: a booking of the date without a document has been refused after
\* another booking had succeeded; the date still has no document.
MissingDateRefused ==
    /\ last.op = "book" /\ last.error = ErrDateNotFound
    /\ ~dates[last.dateId].exists
    /\ appointments # <<>>
    /\ \A a \in DOMAIN appointments : appointments[a].dateId # last.dateId

\* C12: a bookAppointment changes the store in one step only, its commit, which
\* removes the timeId (present until then) from the date's availableTimeIds and
\* appends one appointment, confirmed, of the caller, for that date and time;
\* every call that committed returns success with that appointment's id, every
\* success is returned by a call that committed, a call that fails has changed
\* nothing, and the ledger grows by commits of bookings only, one at a time.
BookAtomic ==
    [][ /\ \A c \in Clients :
             /\ (tx[c].pc = "book_commit" /\ tx'[c].pc = "book_resolved") =>
                  /\ tx[c].timeId \in Range(dates[tx[c].dateId].availableTimeIds)
                  /\ tx[c].timeId \notin Range(dates'[tx[c].dateId].availableTimeIds)
                  /\ \A t \in TimeIds \ {tx[c].timeId} :
                        t \in Range(dates'[tx[c].dateId].availableTimeIds)
                           <=> t \in Range(dates[tx[c].dateId].availableTimeIds)
                  /\ \A d \in DateIds \ {tx[c].dateId} : dates'[d] = dates[d]
                  /\ Len(appointments') = Len(appointments) + 1
                  /\ \A a \in DOMAIN appointments : appointments'[a] = appointments[a]
                  /\ appointments'[Len(appointments')] =
                        [appointmentId |-> Len(appointments'), dateId |-> tx[c].dateId,
                         timeId |-> tx[c].timeId, userId |-> currentUser[c],
                         status |-> "confirmed", cancelledAt |-> NoTimestamp]
                  /\ tx'[c].appointmentId = Len(appointments')
             /\ ( /\ tx[c].pc \in {"book_txn", "book_commit"}
                  /\ tx'[c].pc \notin {tx[c].pc, "book_resolved"} )
                => /\ UNCHANGED <<dates, appointments>>
                   /\ tx'[c].pc = "idle" =>
                        (last'.client = c /\ last'.op = "book" /\ ~last'.success)
             /\ (tx[c].pc = "book_resolved" /\ tx'[c] # tx[c]) =>
                  /\ tx'[c].pc = "idle"
                  /\ last' = Outcome(c, "book", tx[c].dateId, tx[c].timeId,
                                     tx[c].appointmentId, TRUE, "")
                  /\ UNCHANGED <<dates, appointments>>
        /\ (last' # last /\ last'.op = "book" /\ last'.success) =>
             tx[last'.client].pc = "book_resolved"
        /\ Len(appointments') # Len(appointments) =>
             \E c \in Clients : tx[c].pc = "book_commit" /\ tx'[c].pc = "book_resolved"
      ]_vars

\* C12 witness: one booking has failed after another had committed; the ledger
\* holds exactly the committed one and the date lacks exactly its timeId.
BookFailedAfterCommit ==
    /\ last.op = "book" /\ ~last.success /\ last.error = ErrSlotUnavailable
    /\ Len(appointments) = 1 /\ Confirmed(1)
    /\ appointments[1].dateId = last.dateId /\ appointments[1].timeId = last.timeId
    /\ dates[last.dateId].availableTimeIds =
           SelectSeq(seed[last.dateId].availableTimeIds, LAMBDA e : e # last.timeId)
    /\ \A c \in Clients : tx[c].pc = "idle"

\* C13: a cancelAppointment changes the store in one step only, its commit, which
\* needs the date document to exist, leaves the timeId in its availableTimeIds
\* and sets the appointment to cancelled with cancelledAt, touching nothing else;
\* every other step of a cancel changes nothing, a commit on a date without a
\* document ends the call with a failure, and no appointment's status or
\* cancelledAt changes and no date gains a timeId outside such a commit.
CancelAtomic ==
    [][ /\ \A c \in Clients :
             /\ (tx[c].pc = "cancel_commit" /\ tx'[c].pc = "cancel_resolved") =>
                  /\ dates[tx[c].dateId].exists
                  /\ tx[c].timeId \in Range(dates'[tx[c].dateId].availableTimeIds)
                  /\ \A t \in TimeIds \ {tx[c].timeId} :
                        t \in Range(dates'[tx[c].dateId].availableTimeIds)
                           <=> t \in Range(dates[tx[c].dateId].availableTimeIds)
                  /\ \A d \in DateIds \ {tx[c].dateId} : dates'[d] = dates[d]
                  /\ appointments' =
                        [appointments EXCEPT ![tx[c].appointmentId].status = "cancelled",
                                             ![tx[c].appointmentId].cancelledAt = now]
                  /\ appointments'[tx[c].appointmentId].cancelledAt # NoTimestamp
             /\ ( /\ tx[c].pc \in {"cancel_txn", "cancel_commit", "cancel_resolved"}
                  /\ tx'[c].pc \notin {tx[c].pc, "cancel_resolved"} )
                => /\ UNCHANGED <<dates, appointments>>
                   /\ tx'[c].pc = "idle" =>
                        /\ last'.client = c /\ last'.op = "cancel"
                        /\ last'.success <=> tx[c].pc = "cancel_resolved"
             /\ ( /\ tx[c].pc = "cancel_commit" /\ tx'[c].pc # tx[c].pc
                  /\ ~tx[c].stale /\ ~dates[tx[c].dateId].exists )
                => /\ tx'[c].pc = "idle" /\ ~last'.success /\ last'.error # ""
                   /\ appointments'[tx[c].appointmentId].status =
                         appointments[tx[c].appointmentId].status
        /\ ( \/ \E a \in DOMAIN appointments :
                   \/ appointments'[a].status # appointments[a].status
                   \/ appointments'[a].cancelledAt # appointments[a].cancelledAt
             \/ \E d \in DateIds :
                   ~(Range(dates'[d].availableTimeIds) \subseteq
                        Range(dates[d].availableTimeIds)) )
           => \E c \in Clients :
                 tx[c].pc = "cancel_commit" /\ tx'[c].pc = "cancel_resolved"
      ]_vars

\* C13 witness: the owner's cancel of the appointment whose date document is
\* gone has failed, and the appointment is still confirmed without cancelledAt.
OrphanCancelFailed ==
    /\ last.op = "cancel" /\ ~last.success /\ last.error = ErrNoDocument
    /\ Confirmed(last.appointmentId)
    /\ appointments[last.appointmentId].userId = currentUser[last.client]
    /\ appointments[last.appointmentId].cancelledAt = NoTimestamp
    /\ ~dates[appointments[last.appointmentId].dateId].exists

\* C14: an appointment that is cancelled stays cancelled, and the write of
\* status 'cancelled' and cancelledAt is committed at most once per appointment:
\* every commit of a cancel finds its appointment confirmed.
CancelOnce ==
    [][ /\ \A a \in DOMAIN appointments :
             appointments[a].status = "cancelled"
                => appointments'[a].status = "cancelled"
        /\ \A c \in Clients :
             (tx[c].pc = "cancel_commit" /\ tx'[c].pc = "cancel_resolved")
                => appointments[tx[c].appointmentId].status = "confirmed"
      ]_vars

\* C15: if every seeded availableTimeIds names only timeIds of the times
\* catalog (the seed script never lists a timeId twice), then in every state each
\* date's availableTimeIds has no timeId twice and names only timeIds of the
\* catalog.
NoDuplicateSlots ==
    (\A d \in DateIds : Range(seed[d].availableTimeIds) \subseteq times)
        => \A d \in DateIds :
              /\ \A i, j \in DOMAIN dates[d].availableTimeIds :
                    i # j => dates[d].availableTimeIds[i] # dates[d].availableTimeIds[j]
              /\ Range(dates[d].availableTimeIds) \subseteq times

\* C15 witness: an appointment was cancelled once more after its slot had been
\* booked again (the later appointment is confirmed and the slot is on offer),
\* and a booking of a timeId outside the catalog has just been refused.
CancelledAgain ==
    /\ \A d \in DateIds : Range(seed[d].availableTimeIds) \subseteq times
    /\ \E a, b \in DOMAIN appointments :
          /\ a < b /\ appointments[a].status = "cancelled" /\ Confirmed(b)
          /\ appointments[a].dateId = appointments[b].dateId
          /\ appointments[a].timeId = appointments[b].timeId
          /\ Available(appointments[b].dateId, appointments[b].timeId)
    /\ last.op = "book" /\ last.timeId \notin times /\ ~last.success

\* C16: the update function of a bookAppointment whose date document exists and
\* whose timeId has no document in the times catalog ends the call with the
\* 'Time not found' failure, whether or not the date's availableTimeIds lists
\* the timeId.
UnknownTimeReported ==
    [][\A c \in Clients :
         ( /\ tx[c].pc = "book_txn" /\ tx'[c].pc # tx[c].pc
           /\ dates[tx[c].dateId].exists
           /\ tx[c].timeId \notin times )
         => /\ tx'[c].pc = "idle"
            /\ ~last'.success
            /\ last'.error = ErrTimeNotFound
      ]_vars

\* C17: every bookAppointment or cancelAppointment call in progress eventually
\* returns, whatever the contention; no call makes more than MaxAttempts
\* attempts; an update function that finds the date missing, the slot taken, the
\* time unknown, the appointment missing or of another user ends the call at once
\* with that failure; a refused commit is followed by one more attempt, or, at
\* the last attempt, by the return of the store's failure.
CallsReturn ==
    /\ \A c \in Callers : (tx[c].pc # "idle") ~> (tx[c].pc = "idle")
    /\ [](\A c \in Clients : tx[c].attempts <= MaxAttempts)
    /\ [][\A c \in Clients :
            /\ ( /\ tx[c].pc = "book_txn" /\ tx'[c].pc # tx[c].pc
                 /\ \/ ~dates[tx[c].dateId].exists
                    \/ tx[c].timeId \notin Range(dates[tx[c].dateId].availableTimeIds)
                    \/ tx[c].timeId \notin times )
               => /\ tx'[c].pc = "idle" /\ last'.client = c /\ ~last'.success
                  /\ last'.error \in {ErrDateNotFound, ErrSlotUnavailable, ErrTimeNotFound}
            /\ ( /\ tx[c].pc = "cancel_txn" /\ tx'[c].pc # tx[c].pc
                 /\ \/ tx[c].appointmentId \notin DOMAIN appointments
                    \/ appointments[tx[c].appointmentId].userId # currentUser[c] )
               => /\ tx'[c].pc = "idle" /\ last'.client = c /\ ~last'.success
                  /\ last'.error \in {ErrAppointmentNotFound, ErrUnauthorized}
            /\ ( /\ tx[c].pc \in {"book_commit", "cancel_commit"}
                 /\ tx'[c].pc \in {"book_txn", "cancel_txn"} )
               => /\ tx[c].stale
                  /\ tx[c].attempts < MaxAttempts
                  /\ tx'[c].attempts = tx[c].attempts + 1
            /\ ( /\ tx[c].pc \in {"book_commit", "cancel_commit"} /\ tx[c].stale
                 /\ tx'[c].pc # tx[c].pc /\ tx[c].attempts = MaxAttempts )
               => /\ tx'[c].pc = "idle" /\ last'.client = c /\ ~last'.success
                  /\ last'.error = ErrAborted
       ]_vars

\* C17 witness: a call has returned the store's failure after its last attempt
\* was refused, and the other caller is at its last attempt too.
GaveUp ==
    /\ last.error = ErrAborted /\ ~last.success
    /\ \E c \in Callers : tx[c].attempts = MaxAttempts /\ tx[c].stale

\* C18: every step that ends a bookAppointment or cancelAppointment call hands
\* its caller a result: success = false with an error message, or success = true
\* without one, the latter only from a call whose transaction has committed, in
\* which case the ledger holds the booked appointment as the call names it,
\* respectively the cancelled appointment is 'cancelled'.
AlwaysResult ==
    [][\A c \in Clients :
         /\ (tx[c].pc # "idle" /\ tx'[c].pc = "idle") =>
              /\ last'.client = c
              /\ last'.op = (IF tx[c].pc \in {"book_txn", "book_commit", "book_resolved"}
                             THEN "book" ELSE "cancel")
              /\ last'.appointmentId = tx[c].appointmentId
              /\ \/ ~last'.success /\ last'.error # ""
                 \/ /\ last'.success /\ last'.error = ""
                    /\ tx[c].pc \in {"book_resolved", "cancel_resolved"}
              /\ (last'.success /\ last'.op = "book") =>
                    /\ last'.appointmentId \in DOMAIN appointments'
                    /\ appointments'[last'.appointmentId].dateId = tx[c].dateId
                    /\ appointments'[last'.appointmentId].timeId = tx[c].timeId
                    /\ appointments'[last'.appointmentId].userId = currentUser[c]
              /\ (last'.success /\ last'.op = "cancel") =>
                    appointments'[last'.appointmentId].status = "cancelled"
         /\ (tx[c].pc = "idle" /\ last' # last /\ last'.client = c) =>
              /\ currentUser[c] = NoUser
              /\ ~last'.success /\ last'.error = ErrNotAuthenticated
              /\ UNCHANGED <<dates, appointments, tx>>
      ]_vars

\* C18 witness: the store gave up a cancel after the last refused attempt, and
\* the call returned that failure as a result; a booking had committed before.
StoreErrorReturned ==
    /\ last.op = "cancel" /\ ~last.success /\ last.error = ErrAborted
    /\ tx[last.client].pc = "idle"
    /\ Len(appointments) > 1

\* C19: the update function of a cancelAppointment on an id that has no
\* appointment document ends the call with the 'Appointment not found' failure
\* and changes neither the appointments nor any date document; no cancel of such
\* an id ever reaches its commit.
CancelMissingAppointment ==
    [][\A c \in Clients :
         /\ ( /\ tx[c].pc = "cancel_txn" /\ tx'[c].pc # tx[c].pc
              /\ tx[c].appointmentId \notin DOMAIN appointments )
            => /\ tx'[c].pc = "idle"
               /\ last' = Outcome(c, "cancel", "", "", tx[c].appointmentId, FALSE,
                                  ErrAppointmentNotFound)
               /\ UNCHANGED <<dates, appointments>>
         /\ tx'[c].pc \in {"cancel_commit", "cancel_resolved"}
              => tx'[c].appointmentId \in DOMAIN appointments'
      ]_vars

\* C19 witness: a cancel of an id that the ledger, which is not empty, does not
\* hold has been refused.
MissingAppointmentRefused ==
    /\ last.op = "cancel" /\ ~last.success /\ last.error = ErrAppointmentNotFound
    /\ last.appointmentId \notin DOMAIN appointments
    /\ appointments # <<>>

\* C20: when the store read of a getDateAvailability fails, the call ends with
\* the store's error, serves nothing (no cache hit, no data) and leaves the cache
\* as it was; when the store has no document for the dateId, the call returns
\* null (no data, no error) and leaves the cache as it was.
ReadThroughFailure ==
    [][\A c \in Clients :
         /\ (get[c].pc = "get_fetch" /\ get'[c].pc = "idle") =>
              /\ last'.client = c /\ last'.op = "get" /\ last'.dateId = get[c].dateId
              /\ ~last'.success /\ last'.error = ErrUnavailable
              /\ ~last'.cacheHit /\ last'.data = <<>>
              /\ UNCHANGED datesCache
         /\ (get[c].pc = "get_resume" /\ get'[c].pc = "idle" /\ ~get[c].data.exists) =>
              /\ last' = GetOutcome(c, get[c].dateId, FALSE, FALSE, <<>>, 0)
              /\ last'.error = ""
              /\ UNCHANGED datesCache
      ]_vars

\* C20 witness: a read has failed while the cache held an expired entry for the
\* date; the entry is still there, as old as it was.
ReadFailedOnExpired ==
    /\ last.op = "get" /\ last.error = ErrUnavailable /\ ~last.cacheHit
    /\ get[last.client].pc = "idle"
    /\ datesCache[last.client][last.dateId].present
    /\ now - datesCache[last.client][last.dateId].timestamp >= CACHE_DURATION

\* C21: a clearDateCache(d) of an instance, for whatever string d, leaves the
\* entries of all dates other than d as they were and leaves no entry for d; a
\* clearDateCache() leaves no entry at all; neither touches another instance's
\* cache or the store.
ClearExact ==
    [][\A c \in Clients :
         (last' # last /\ last'.op = "clear" /\ last'.client = c) =>
            /\ last'.dateId = Undefined =>
                 \A e \in DateIds : ~datesCache'[c][e].present
            /\ last'.dateId # Undefined =>
                 \A e \in DateIds :
                    IF e = last'.dateId THEN ~datesCache'[c][e].present
                    ELSE datesCache'[c][e] = datesCache[c][e]
            /\ \A k \in Clients \ {c} : datesCache'[k] = datesCache[k]
            /\ UNCHANGED <<dates, times, appointments>>
      ]_vars

\* C22: the list a getUserAppointments hands back holds, once each, exactly the
\* appointments that at the time of its query have the caller's userId and
\* status 'confirmed', in ascending order of date; a call without a signed-in
\* user hands back the empty list.
ListExact ==
    [][\A c \in Clients :
         /\ (list[c].pc = "query" /\ list'[c].pc = "idle") =>
              LET r == last'.data
              IN  /\ last'.op = "list" /\ last'.client = c
                  /\ list[c].uid = currentUser[c]
                  /\ Range(r) = {a \in DOMAIN appointments :
                                    /\ appointments[a].userId = currentUser[c]
                                    /\ appointments[a].status = "confirmed"}
                  /\ \A i, j \in DOMAIN r :
                        i < j => /\ r[i] # r[j]
                                 /\ DateRank(appointments[r[i]].dateId)
                                       <= DateRank(appointments[r[j]].dateId)
         /\ (list[c].pc = "idle" /\ last' # last /\ last'.op = "list" /\ last'.client = c) =>
              /\ currentUser[c] = NoUser
              /\ last'.data = <<>>
              /\ list'[c].pc = "idle"
      ]_vars

\* C22 witness: the list holds two appointments, the one booked later first
\* because its date is the earlier one, and leaves out a third appointment.
ListSorted ==
    /\ last.op = "list" /\ Len(last.data) = 2
    /\ last.data[1] > last.data[2]
    /\ Len(appointments) = 3
    /\ \A a \in Range(last.data) : Confirmed(a) /\ appointments[a].userId = "userA"

\* C23: a waitForAuthInit that waits is eventually resolved; a call resolves at
\* most once; once resolved its timer is disarmed or spent and its subscription
\* released, and its result stays; it resolves at once, with the current user,
\* exactly when auth is already initialized, and otherwise in the step that
\* initializes auth or in the step of its timeout, with the user current then.
WaitResolvesOnce ==
    /\ \A c \in Clients : (auth[c].wait = "waiting") ~> (auth[c].wait = "resolved")
    /\ [](\A c \in Clients :
            /\ auth[c].resolves <= 1
            /\ auth[c].wait = "waiting" => (auth[c].timer /\ auth[c].subscribed)
            /\ auth[c].wait = "resolved" =>
                 (auth[c].resolves = 1 /\ ~auth[c].timer /\ ~auth[c].subscribed))
    /\ [][\A c \in Clients :
            /\ (auth[c].wait = "none" /\ auth'[c].wait = "resolved") =>
                 (auth[c].initialized /\ auth'[c].result = auth[c].user)
            /\ (auth[c].wait = "none" /\ auth'[c].wait = "waiting") => ~auth[c].initialized
            /\ (auth[c].wait = "waiting" /\ auth'[c].wait = "resolved") =>
                 /\ auth'[c].result = auth'[c].user
                 /\ \/ ~auth[c].initialized /\ auth'[c].initialized
                    \/ auth'[c].initialized = auth[c].initialized /\ auth'[c].listener = auth[c].listener
            /\ (auth[c].wait = "resolved" /\ auth'[c].wait = "resolved") =>
                 (auth'[c].result = auth[c].result /\ auth'[c].resolves = auth[c].resolves)
       ]_vars

\* C23 witness: the call was resolved by its timeout, and auth was initialized
\* afterwards, which left the call's result as it was.
ResolvedByTimeout ==
    /\ auth["c1"].wait = "resolved" /\ auth["c1"].resolved
    /\ auth["c1"].initialized /\ auth["c1"].user # auth["c1"].result

\* C24: a waitForAuthInit that waited resolves with auth initialized and with
\* the user Firebase restores, and no call of an instance whose session Firebase
\* restores ends with 'User not authenticated' or, for a list, with the empty
\* list of a caller without user.
NoAuthRace ==
    [][\A c \in Clients :
         /\ (auth[c].wait = "waiting" /\ auth'[c].wait = "resolved") =>
              (auth'[c].initialized /\ auth'[c].result = auth[c].session)
         /\ (auth[c].wait = "resolved" /\ auth'[c].wait = "none" /\ auth[c].session # NoUser) =>
              /\ currentUser'[c] = auth[c].session
              /\ last' # last => last'.error # ErrNotAuthenticated
      ]_vars

\* C25: on an instance whose getDateAvailability and bookAppointment calls have
\* all completed, a cache entry for a date lists no timeId that a confirmed
\* appointment on that date holds (no snapshot from before a booking of the
\* instance survives the booking).
NoPreBookingSnapshot ==
    \A c \in Clients, d \in DateIds :
        (tx[c].pc = "idle" /\ get[c].pc = "idle" /\ datesCache[c][d].present) =>
            \A i \in 1..Len(appointments) :
                (appointments[i].dateId = d /\ appointments[i].status = "confirmed") =>
                    appointments[i].timeId \notin Range(datesCache[c][d].data)

\* C26: of two transactions at the same time on one date and different timeIds
\* (book and book, or book and cancel) none fails, and once they are done the
\* date's availableTimeIds is what running them one after the other gives, in
\* either order: both booked timeIds removed, the cancelled one appended.
NoLostUpdate ==
    /\ last.op \in {"book", "cancel"} => last.success
    /\ (\A c \in Callers : tx[c].pc = "idle") =>
         LET start == ArrayRemove(seed[D1].availableTimeIds, T2)
             booked(t) == \E i \in OnSlot(t) : appointments[i].status = "confirmed"
             cancelled(t) == \E i \in OnSlot(t) : appointments[i].status = "cancelled"
         IN /\ (booked(T1) /\ booked(T2)) =>
                 /\ dates[D1].availableTimeIds
                      = ArrayRemove(ArrayRemove(seed[D1].availableTimeIds, T1), T2)
                 /\ dates[D1].availableTimeIds
                      = ArrayRemove(ArrayRemove(seed[D1].availableTimeIds, T2), T1)
            /\ (booked(T1) /\ cancelled(T2)) =>
                 /\ dates[D1].availableTimeIds = ArrayUnion(ArrayRemove(start, T1), T2)
                 /\ dates[D1].availableTimeIds = ArrayRemove(ArrayUnion(start, T2), T1)

\* C26 witness: the booking of T1 had to run again because the cancellation on
\* T2 committed first, and both took effect.
BookRetriedAfterCancel ==
    /\ tx["c1"].pc = "book_resolved" /\ tx["c1"].attempts > 1
    /\ \E i \in OnSlot(T2) : appointments[i].status = "cancelled"
    /\ dates[D1].availableTimeIds = <<T2>>

\* C27: for every date that has a document, the timeIds in availableTimeIds
\* together with the timeIds of the date's confirmed appointments are exactly the
\* timeIds the date was seeded with.
SlotConservation ==
    \A d \in DateIds :
        dates[d].exists =>
            Range(dates[d].availableTimeIds)
              \cup {appointments[i].timeId :
                      i \in {k \in DOMAIN appointments :
                                Confirmed(k) /\ appointments[k].dateId = d}}
            = Range(seed[d].availableTimeIds)

\* C27 witness: a slot was booked, cancelled and booked again, while another
\* slot of the date is still available.
BookedCancelledBooked ==
    \E d \in DateIds, i, j \in 1..Len(appointments) :
        /\ appointments[i].dateId = d /\ appointments[j].dateId = d
        /\ appointments[i].timeId = appointments[j].timeId
        /\ appointments[i].status = "cancelled" /\ appointments[j].status = "confirmed"
        /\ dates[d].availableTimeIds # <<>>
        /\ appointments[j].timeId \notin Range(dates[d].availableTimeIds)

\* C28: what a booking does is decided by the store alone. The run of its update
\* function goes on to commit exactly when the date document in the store exists
\* and lists the timeId and the times catalog has the timeId, and otherwise the
\* call fails with the error for the store's state; its commit writes what the
\* store's state and the call's arguments give. The cache of the instance,
\* whatever it holds, does not enter.
BookIgnoresCache ==
    [][\A c \in Clients :
         /\ (tx[c].pc = "book_txn" /\ tx'[c].pc # "book_txn") =>
              LET verdict == BookCheck(dates[tx[c].dateId], tx[c].timeId)
              IN /\ dates' = dates /\ appointments' = appointments
                 /\ IF verdict = ""
                    THEN tx'[c].pc = "book_commit" /\ last' = last
                    ELSE /\ tx'[c].pc = "idle"
                         /\ last'.client = c /\ ~last'.success /\ last'.error = verdict
         /\ (tx[c].pc = "book_commit" /\ tx'[c].pc = "book_resolved") =>
              /\ dates' = [dates EXCEPT ![tx[c].dateId].availableTimeIds =
                                            ArrayRemove(@, tx[c].timeId)]
              /\ appointments' = Append(appointments,
                     NewAppointment(Len(appointments) + 1, tx[c].dateId, tx[c].timeId,
                                    currentUser[c]))
      ]_vars

\* C28 witness: the instance's fresh cache entry still lists a timeId that another
\* caller has booked; its booking of that timeId was refused as unavailable.
StaleCacheRefused ==
    /\ last.client = "c1" /\ last.op = "book" /\ last.error = ErrSlotUnavailable
    /\ CacheFresh(datesCache["c1"][last.dateId], now)
    /\ last.timeId \in Range(datesCache["c1"][last.dateId].data)
    /\ \E i \in DOMAIN appointments :
          /\ Confirmed(i) /\ appointments[i].dateId = last.dateId
          /\ appointments[i].timeId = last.timeId

\* C29: when no load of the TimeSelector is scheduled or pending and a date is
\* selected, availableTimes and disabledSlots are those of the selected date.
ShowsSelectedDate ==
    ((\A i \in 1..MaxLoads : sel.loads[i].pc = "none") /\ sel.selectedDateId # NoDate) =>
        LET shown == MapToTimes(dates[sel.selectedDateId].availableTimeIds)
        IN /\ sel.availableTimes = shown
           /\ sel.disabledSlots = {TimeOf(t) : t \in times} \ Range(shown)

\* C30: the commit of a booking or of a cancellation changes the
\* availableTimeIds of the call's date by exactly the call's timeId (removed by
\* a booking, added by a cancellation) and changes the call's appointment only;
\* the other dates, the other timeIds of the date, the other appointments, the
\* times catalog and the dateId, timeId and userId of the cancelled appointment
\* stay as they are.
FrameExact ==
    [][\A c \in Clients :
         LET d == tx[c].dateId
             t == tx[c].timeId
             a == tx[c].appointmentId
             before == Range(dates[d].availableTimeIds)
             after == Range(dates'[d].availableTimeIds)
         IN /\ (tx[c].pc = "book_commit" /\ tx'[c].pc = "book_resolved") =>
                 /\ \A e \in DateIds \ {d} : dates'[e] = dates[e]
                 /\ dates'[d].exists
                 /\ before \ after = {t} /\ after \subseteq before
                 /\ Len(appointments') = Len(appointments) + 1
                 /\ \A i \in DOMAIN appointments : appointments'[i] = appointments[i]
                 /\ times' = times
            /\ (tx[c].pc = "cancel_commit" /\ tx'[c].pc = "cancel_resolved") =>
                 /\ \A e \in DateIds \ {d} : dates'[e] = dates[e]
                 /\ dates'[d].exists
                 /\ after \ before = {t} /\ before \subseteq after
                 /\ DOMAIN appointments' = DOMAIN appointments
                 /\ \A i \in DOMAIN appointments \ {a} : appointments'[i] = appointments[i]
                 /\ appointments'[a].dateId = appointments[a].dateId
                 /\ appointments'[a].timeId = appointments[a].timeId
                 /\ appointments'[a].userId = appointments[a].userId
                 /\ times' = times
      ]_vars

====
